---- MODULE Spec2Model ----
(***************************************************************************)
(* RustPass (src/main.rs): the comparison of two KeePass databases.        *)
(*                                                                         *)
(*   SpecIndex    collect_all_entries and count_entries over one tree      *)
(*   SpecCompare  compare_databases over two trees, run repeatedly         *)
(*   Spec         the application: the four text fields, Browse and Sync   *)
(*                                                                         *)
(* An Option<T> is a sequence of length 0 (None) or 1 (Some(v)).  A        *)
(* HashMap is a function; its iteration order, which std's RandomState     *)
(* seeds afresh for every map, is an arbitrary enumeration of its keys.    *)
(* A &Entry is the position of the entry in its tree.                      *)
(***************************************************************************)
EXTENDS Naturals, Sequences, FiniteSets

VARIABLES
    db1, db2,                 \* the two opened databases (compare_databases's arguments)
    entries1, entries2,       \* the maps collect_all_entries built last
    count1,                   \* Some(what count_entries returned last), None before
    differences,              \* RustPassApp.differences / compare_databases's result
    previous,                 \* the result of the run before the last one
    runs,                     \* how many comparisons ran
    database1_path, database1_pass,
    database2_path, database2_pass,
    status_message,
    disk,                     \* the files the application can open
    calls                     \* the calls the handler that ran last made, in order

pureVars == <<db1, db2, entries1, entries2, count1, previous, runs>>
appVars == <<database1_path, database1_pass, database2_path, database2_pass,
             status_message, disk, calls>>
vars == <<db1, db2, entries1, entries2, count1, differences, previous, runs,
          database1_path, database1_pass, database2_path, database2_pass,
          status_message, disk, calls>>

----------------------------------------------------------------------------
(* Bounds *)

MaxGroups == 2       \* SpecIndex: groups below the root, at any depth
MaxTotal == 3        \* SpecIndex: entries in the whole tree
CmpGroups == 1       \* SpecCompare: groups below the root of each tree
CmpTotal == 2        \* SpecCompare: entries in the two trees together
MaxRuns == 2         \* SpecCompare: comparisons of the same two trees

----------------------------------------------------------------------------
(* Option, Entry, Group, Database (keepass::db) *)

None == <<>>
Some(v) == <<v>>

unwrap_or(o, d) == IF o = None THEN d ELSE o[1]
\* Mutation: an absent field is not defaulted to the empty string.
unwrap_or_absent(o) == unwrap_or(o, "(absent)")
unwrap_or_default(o) == unwrap_or(o, "")

NoTitle == "(no title)"

Titles == {None, Some(""), Some("Bank")}
Usernames == {None, Some(""), Some("alice")}
Passwords == {None, Some(""), Some("p1")}

\* Entry: the three optional string fields the program reads.
Entries == [title : Titles, username : Usernames, password : Passwords]
\* collect_all_entries and count_entries read the title only.
TitledEntries == [title : Titles, username : {None}, password : {None}]

get_title(e) == e.title
get_username(e) == e.username
get_password(e) == e.password

EmptyGroup == [entries |-> <<>>, groups |-> <<>>]

\* The groups below g, each named by the child indices leading to it.
RECURSIVE GroupPaths(_)
GroupPaths(g) ==
    {<<>>} \cup UNION {{<<j>> \o p : p \in GroupPaths(g.groups[j])} :
                          j \in 1..Len(g.groups)}

RECURSIVE GroupAt(_, _)
GroupAt(g, p) == IF p = <<>> THEN g ELSE GroupAt(g.groups[p[1]], Tail(p))

DirectEntries(g, p) == Len(GroupAt(g, p).entries)

RECURSIVE SumDirect(_, _)
SumDirect(g, paths) ==
    IF paths = {} THEN 0
    ELSE LET p == CHOOSE q \in paths : TRUE
         IN  DirectEntries(g, p) + SumDirect(g, paths \ {p})

\* The sum, over the group and every group below it, of the direct entries.
TotalEntries(g) == SumDirect(g, GroupPaths(g))

\* The number of groups below g.
Descendants(g) == Cardinality(GroupPaths(g)) - 1

\* The groups with <= n groups below them that hold <= t entries in all, the
\* entries drawn from E; ForestsWith: the sequences of child groups that
\* count <= n groups and hold <= t entries in all.
RECURSIVE GroupsWith(_, _, _), ForestsWith(_, _, _)
GroupsWith(E, n, t) ==
    UNION {{[entries |-> es, groups |-> gs] :
               es \in [1..k -> E], gs \in ForestsWith(E, n, t - k)} :
           k \in 0..t}
ForestsWith(E, n, t) ==
    IF n = 0 THEN {<<>>}
    ELSE {<<>>} \cup
         UNION {{<<g>> \o f :
                    f \in ForestsWith(E, n - 1 - Descendants(g), t - TotalEntries(g))} :
                g \in GroupsWith(E, n - 1, t)}

Database(root) == [root |-> root]

----------------------------------------------------------------------------
(* HashMap<String, &Entry> *)

EmptyMap == <<>>
insert(m, k, v) == [x \in DOMAIN m \cup {k} |-> IF x = k THEN v ELSE m[x]]
\* extend inserts every pair of other, in other's iteration order; other's keys
\* are distinct, so the result is the same for every order.
\* Mutation: a key already in the map keeps its entry (first write wins).
extend_or_keep(m, other) ==
    [x \in DOMAIN m \cup DOMAIN other |-> IF x \in DOMAIN m THEN m[x] ELSE other[x]]
extend(m, other) ==
    [x \in DOMAIN m \cup DOMAIN other |-> IF x \in DOMAIN other THEN other[x] ELSE m[x]]
contains_key(m, k) == k \in DOMAIN m
\* The orders in which a map with key set S may be iterated.
IterOrders(S) ==
    {s \in [1..Cardinality(S) -> S] : \A i, j \in DOMAIN s : i # j => s[i] # s[j]}

\* &Entry: the entry at index idx of the group at path.
Ref(p, i) == [path |-> p, idx |-> i]
Deref(root, r) == GroupAt(root, r.path).entries[r.idx]

----------------------------------------------------------------------------
(* collect_all_entries, count_entries *)

\* Mutation: an empty title is keyed like an absent one.
EntryKey_empty_as_absent(entry) ==
    IF get_title(entry) = Some("") THEN NoTitle ELSE unwrap_or(get_title(entry), NoTitle)
\* The key collect_all_entries inserts an entry under.
EntryKey(entry) == unwrap_or(get_title(entry), NoTitle)

RECURSIVE collect_all_entries(_, _)
collect_all_entries(group, at) ==
    LET InsertEntries[i \in 0..Len(group.entries)] ==
            IF i = 0 THEN EmptyMap
            ELSE insert(InsertEntries[i - 1], EntryKey(group.entries[i]), Ref(at, i))
        ExtendGroups[j \in 0..Len(group.groups)] ==
            IF j = 0 THEN InsertEntries[Len(group.entries)]
            ELSE extend(ExtendGroups[j - 1],
                        collect_all_entries(group.groups[j], Append(at, j)))
    IN  ExtendGroups[Len(group.groups)]

\* Mutation: the entries of nested groups are not counted.
count_direct_entries(group) == Len(group.entries)

RECURSIVE count_group_entries(_)
count_group_entries(group) ==
    LET Sum[j \in 0..Len(group.groups)] ==
            IF j = 0 THEN 0 ELSE Sum[j - 1] + count_group_entries(group.groups[j])
    IN  Len(group.entries) + Sum[Len(group.groups)]

count_entries(db) ==
    LET Sum[j \in 0..Len(db.root.groups)] ==
            IF j = 0 THEN 0 ELSE Sum[j - 1] + count_group_entries(db.root.groups[j])
    IN  Len(db.root.entries) + Sum[Len(db.root.groups)]

----------------------------------------------------------------------------
(* compare_databases *)

OnlyInOne == [tag |-> "OnlyInOne"]
OnlyInTwo == [tag |-> "OnlyInTwo"]
UsernameDiffers(u1, u2) == [tag |-> "UsernameDiffers", username1 |-> u1, username2 |-> u2]
PasswordDiffers == [tag |-> "PasswordDiffers"]
DifferenceInfo(t, u, d) == [title |-> t, username |-> u, diff_type |-> d]

\* Mutation: the passwords are compared before the usernames.
CheckInDb1_password_first(key, entry1, m2, root2) ==
    IF contains_key(m2, key)
    THEN LET entry2 == Deref(root2, m2[key])
             username1 == unwrap_or_default(get_username(entry1))
             username2 == unwrap_or_default(get_username(entry2))
             pass1 == unwrap_or_default(get_password(entry1))
             pass2 == unwrap_or_default(get_password(entry2))
         IN  IF pass1 # pass2
             THEN <<DifferenceInfo(unwrap_or(get_title(entry1), NoTitle), username1,
                                   PasswordDiffers)>>
             ELSE IF username1 # username2
             THEN <<DifferenceInfo(unwrap_or(get_title(entry1), NoTitle), username1,
                                   UsernameDiffers(username1, username2))>>
             ELSE <<>>
    ELSE <<DifferenceInfo(unwrap_or(get_title(entry1), NoTitle),
                          unwrap_or_default(get_username(entry1)), OnlyInOne)>>

\* The body of the loop over entries1: what it pushes for one (key, entry1).
CheckInDb1(key, entry1, m2, root2) ==
    IF contains_key(m2, key)
    THEN LET entry2 == Deref(root2, m2[key])
             username1 == unwrap_or_default(get_username(entry1))
             username2 == unwrap_or_default(get_username(entry2))
             pass1 == unwrap_or_default(get_password(entry1))
             pass2 == unwrap_or_default(get_password(entry2))
         IN  IF username1 # username2
             THEN <<DifferenceInfo(unwrap_or(get_title(entry1), NoTitle), username1,
                                   UsernameDiffers(username1, username2))>>
             ELSE IF pass1 # pass2
             THEN <<DifferenceInfo(unwrap_or(get_title(entry1), NoTitle), username1,
                                   PasswordDiffers)>>
             ELSE <<>>
    ELSE <<DifferenceInfo(unwrap_or(get_title(entry1), NoTitle),
                          unwrap_or_default(get_username(entry1)), OnlyInOne)>>

\* Mutation: an entry only in the second database is reported as only in the first.
CheckInDb2_as_first(key, entry2, m1) ==
    IF ~contains_key(m1, key)
    THEN <<DifferenceInfo(unwrap_or(get_title(entry2), NoTitle),
                          unwrap_or_default(get_username(entry2)), OnlyInOne)>>
    ELSE <<>>

\* The body of the loop over entries2.
CheckInDb2(key, entry2, m1) ==
    IF ~contains_key(m1, key)
    THEN <<DifferenceInfo(unwrap_or(get_title(entry2), NoTitle),
                          unwrap_or_default(get_username(entry2)), OnlyInTwo)>>
    ELSE <<>>

\* Mutation: the loop over entries1 ends after its first iteration.
CheckDb1_first_only(d1, d2, ord1) ==
    LET m1 == collect_all_entries(d1.root, <<>>)
        m2 == collect_all_entries(d2.root, <<>>)
    IN  IF ord1 = <<>> THEN <<>>
        ELSE CheckInDb1(ord1[1], Deref(d1.root, m1[ord1[1]]), m2, d2.root)

\* The loop over entries1, iterated in the order ord1: what it pushes.
CheckDb1(d1, d2, ord1) ==
    LET m1 == collect_all_entries(d1.root, <<>>)
        m2 == collect_all_entries(d2.root, <<>>)
        Pushed[i \in 0..Len(ord1)] ==
            IF i = 0 THEN <<>>
            ELSE Pushed[i - 1] \o
                 CheckInDb1(ord1[i], Deref(d1.root, m1[ord1[i]]), m2, d2.root)
    IN  Pushed[Len(ord1)]

\* The loop over entries2, iterated in the order ord2: what it pushes.
CheckDb2(d1, d2, ord2) ==
    LET m1 == collect_all_entries(d1.root, <<>>)
        m2 == collect_all_entries(d2.root, <<>>)
        Pushed[i \in 0..Len(ord2)] ==
            IF i = 0 THEN <<>>
            ELSE Pushed[i - 1] \o CheckInDb2(ord2[i], Deref(d2.root, m2[ord2[i]]), m1)
    IN  Pushed[Len(ord2)]

\* Mutation: the entries only in db2 are checked first.
compare_databases_db2_first(d1, d2, ord1, ord2) ==
    CheckDb2(d1, d2, ord2) \o CheckDb1(d1, d2, ord1)

\* ord1 and ord2 are the orders in which the two maps are iterated.
compare_databases(d1, d2, ord1, ord2) ==
    CheckDb1(d1, d2, ord1) \o CheckDb2(d1, d2, ord2)

----------------------------------------------------------------------------
(* Specifications of the pure functions *)

Welcome == <<"Welcome to RustPass!">>

AppIdle ==
    /\ database1_path = "" /\ database1_pass = ""
    /\ database2_path = "" /\ database2_pass = ""
    /\ status_message = Welcome
    /\ disk = <<>>
    /\ calls = <<>>

PureInit(pairs) ==
    /\ \E pr \in pairs : db1 = Database(pr[1]) /\ db2 = Database(pr[2])
    /\ entries1 = EmptyMap /\ entries2 = EmptyMap
    /\ count1 = None
    /\ differences = <<>> /\ previous = <<>>
    /\ runs = 0
    /\ AppIdle

InitIndex == PureInit(GroupsWith(TitledEntries, MaxGroups, MaxTotal) \X {EmptyGroup})

CollectAllEntries ==
    /\ entries1' = collect_all_entries(db1.root, <<>>)
    /\ UNCHANGED <<db1, db2, entries2, count1, differences, previous, runs>>
    /\ UNCHANGED appVars

CountEntries ==
    /\ count1' = Some(count_entries(db1))
    /\ UNCHANGED <<db1, db2, entries1, entries2, differences, previous, runs>>
    /\ UNCHANGED appVars

NextIndex == CollectAllEntries \/ CountEntries
SpecIndex == InitIndex /\ [][NextIndex]_vars

InitCompare ==
    PureInit(UNION {GroupsWith(Entries, CmpGroups, t) \X
                    GroupsWith(Entries, CmpGroups, CmpTotal - t) : t \in 0..CmpTotal})

CompareDatabases ==
    /\ runs < MaxRuns
    /\ \E ord1 \in IterOrders(DOMAIN collect_all_entries(db1.root, <<>>)),
          ord2 \in IterOrders(DOMAIN collect_all_entries(db2.root, <<>>)) :
          differences' = compare_databases(db1, db2, ord1, ord2)
    /\ entries1' = collect_all_entries(db1.root, <<>>)
    /\ entries2' = collect_all_entries(db2.root, <<>>)
    /\ previous' = differences
    /\ runs' = runs + 1
    /\ UNCHANGED <<db1, db2, count1>>
    /\ UNCHANGED appVars

NextCompare == CompareDatabases
SpecCompare == InitCompare /\ [][NextCompare]_vars

----------------------------------------------------------------------------
(* The application: RustPassApp and its handlers *)

Paths == {"", "a.kdbx", "b.kdbx", "gone.kdbx"}
PassInputs == {"", "pw", "bad"}

Entry(t, u, p) == [title |-> t, username |-> u, password |-> p]

\* Databases a file may hold.
SampleTrees ==
    { EmptyGroup,
      [entries |-> <<Entry(Some("Bank"), Some("alice"), Some("p1")),
                     Entry(None, None, Some("p1"))>>,
       groups |-> <<>>],
      [entries |-> <<Entry(Some("Bank"), Some("alice"), Some(""))>>,
       groups |-> <<[entries |-> <<Entry(Some(""), Some("alice"), None)>>,
                     groups |-> <<>>]>>] }

\* The files that exist, each with the password that decrypts it.
Disks == [{"a.kdbx", "b.kdbx"} -> [password : {"pw"}, root : SampleTrees]]

Ok(v) == [ok |-> TRUE, value |-> v]
Err(e) == [ok |-> FALSE, error |-> e]

\* File::open fails for a path that names no file, Database::open for a key
\* that does not decrypt it.
open_database(d, path, password) ==
    IF path \notin DOMAIN d
    THEN Err(<<"Failed to open file: ", "No such file or directory">>)
    ELSE IF d[path].password # password
    THEN Err(<<"Failed to decrypt database: ", "Incorrect key">>)
    ELSE Ok(Database(d[path].root))

Call(fn, n, ok) == [fn |-> fn, db |-> n, ok |-> ok]

\* Mutation: a failed first open does not end the run; the second database is
\* opened all the same.
sync_databases_no_return(self, d, ord1, ord2) ==
    LET r1 == open_database(d, self.database1_path, self.database1_pass)
        r2 == open_database(d, self.database2_path, self.database2_pass)
    IN  IF ~r1.ok
        THEN [self EXCEPT
                 !.status_message =
                     IF r2.ok THEN <<"Error opening first database: ", r1.error>>
                     ELSE <<"Error opening second database: ", r2.error>>,
                 !.calls = <<Call("open_database", 1, FALSE),
                             Call("open_database", 2, r2.ok)>>]
        ELSE IF ~r2.ok
        THEN [self EXCEPT
                 !.status_message = <<"Error opening second database: ", r2.error>>,
                 !.calls = <<Call("open_database", 1, TRUE),
                             Call("open_database", 2, FALSE)>>]
        ELSE LET diffs == compare_databases(r1.value, r2.value, ord1, ord2)
             IN  [self EXCEPT
                     !.differences = diffs,
                     !.status_message =
                         <<"Successfully compared databases!",
                           count_entries(r1.value), count_entries(r2.value), Len(diffs)>>,
                     !.calls = <<Call("open_database", 1, TRUE),
                                 Call("open_database", 2, TRUE),
                                 Call("compare_databases", 0, TRUE),
                                 Call("collect_all_entries", 1, TRUE),
                                 Call("collect_all_entries", 2, TRUE),
                                 Call("count_entries", 1, TRUE),
                                 Call("count_entries", 2, TRUE)>>]

\* Mutation: the list of differences is cleared when the run starts.
sync_databases_clearing(self, d, ord1, ord2) ==
    LET r1 == open_database(d, self.database1_path, self.database1_pass)
        r2 == open_database(d, self.database2_path, self.database2_pass)
        start == [self EXCEPT !.differences = <<>>]
    IN  IF ~r1.ok
        THEN [start EXCEPT
                 !.status_message = <<"Error opening first database: ", r1.error>>,
                 !.calls = <<Call("open_database", 1, FALSE)>>]
        ELSE IF ~r2.ok
        THEN [start EXCEPT
                 !.status_message = <<"Error opening second database: ", r2.error>>,
                 !.calls = <<Call("open_database", 1, TRUE),
                             Call("open_database", 2, FALSE)>>]
        ELSE LET diffs == compare_databases(r1.value, r2.value, ord1, ord2)
             IN  [start EXCEPT
                     !.differences = diffs,
                     !.status_message =
                         <<"Successfully compared databases!",
                           count_entries(r1.value), count_entries(r2.value), Len(diffs)>>,
                     !.calls = <<Call("open_database", 1, TRUE),
                                 Call("open_database", 2, TRUE),
                                 Call("compare_databases", 0, TRUE),
                                 Call("collect_all_entries", 1, TRUE),
                                 Call("collect_all_entries", 2, TRUE),
                                 Call("count_entries", 1, TRUE),
                                 Call("count_entries", 2, TRUE)>>]

\* self is the RustPassApp; ord1 and ord2 are the iteration orders of the maps
\* compare_databases builds.  The result is self after the handler, with the
\* calls the handler made.
sync_databases(self, d, ord1, ord2) ==
    LET r1 == open_database(d, self.database1_path, self.database1_pass)
        r2 == open_database(d, self.database2_path, self.database2_pass)
        start == [self EXCEPT !.status_message = <<"Decrypting databases...">>]
    IN  IF ~r1.ok
        THEN [start EXCEPT
                 !.status_message = <<"Error opening first database: ", r1.error>>,
                 !.calls = <<Call("open_database", 1, FALSE)>>]
        ELSE IF ~r2.ok
        THEN [start EXCEPT
                 !.status_message = <<"Error opening second database: ", r2.error>>,
                 !.calls = <<Call("open_database", 1, TRUE),
                             Call("open_database", 2, FALSE)>>]
        ELSE LET diffs == compare_databases(r1.value, r2.value, ord1, ord2)
             IN  [start EXCEPT
                     !.differences = diffs,
                     !.status_message =
                         <<"Successfully compared databases!",
                           count_entries(r1.value), count_entries(r2.value), Len(diffs)>>,
                     !.calls = <<Call("open_database", 1, TRUE),
                                 Call("open_database", 2, TRUE),
                                 Call("compare_databases", 0, TRUE),
                                 Call("collect_all_entries", 1, TRUE),
                                 Call("collect_all_entries", 2, TRUE),
                                 Call("count_entries", 1, TRUE),
                                 Call("count_entries", 2, TRUE)>>]

\* The orders in which compare_databases may iterate the map of the database
\* at path (none when the database does not open).
OrdersAt(d, path, password) ==
    LET r == open_database(d, path, password)
    IN  IF r.ok THEN IterOrders(DOMAIN collect_all_entries(r.value.root, <<>>))
        ELSE {<<>>}

Self ==
    [database1_path |-> database1_path, database1_pass |-> database1_pass,
     database2_path |-> database2_path, database2_pass |-> database2_pass,
     status_message |-> status_message, differences |-> differences,
     calls |-> calls]

button_enabled ==
    ~(database1_path = "" \/ database1_pass = "" \/
      database2_path = "" \/ database2_pass = "")

Init ==
    /\ db1 = Database(EmptyGroup) /\ db2 = Database(EmptyGroup)
    /\ entries1 = EmptyMap /\ entries2 = EmptyMap
    /\ count1 = None
    /\ previous = <<>> /\ runs = 0
    /\ database1_path = "" /\ database1_pass = ""
    /\ database2_path = "" /\ database2_pass = ""
    /\ status_message = Welcome
    /\ differences = <<>>
    /\ disk \in Disks
    /\ calls = <<>>

\* update: the user edits one of the four text fields.
EditPath1 ==
    /\ \E p \in Paths : database1_path' = p
    /\ calls' = <<>>
    /\ UNCHANGED <<database1_pass, database2_path, database2_pass, status_message,
                   differences, disk>>
    /\ UNCHANGED pureVars

EditPass1 ==
    /\ \E p \in PassInputs : database1_pass' = p
    /\ calls' = <<>>
    /\ UNCHANGED <<database1_path, database2_path, database2_pass, status_message,
                   differences, disk>>
    /\ UNCHANGED pureVars

EditPath2 ==
    /\ \E p \in Paths : database2_path' = p
    /\ calls' = <<>>
    /\ UNCHANGED <<database1_path, database1_pass, database2_pass, status_message,
                   differences, disk>>
    /\ UNCHANGED pureVars

EditPass2 ==
    /\ \E p \in PassInputs : database2_pass' = p
    /\ calls' = <<>>
    /\ UNCHANGED <<database1_path, database1_pass, database2_path, status_message,
                   differences, disk>>
    /\ UNCHANGED pureVars

\* browse_file with a file picked (a cancelled dialog changes nothing).
BrowseFile ==
    /\ \E target \in {"First", "Second"}, path \in Paths \ {""} :
          /\ IF target = "First"
             THEN database1_path' = path /\ UNCHANGED database2_path
             ELSE database2_path' = path /\ UNCHANGED database1_path
          /\ status_message' = <<"Selected: ", path>>
    /\ calls' = <<Call("pick_file", 0, TRUE)>>
    /\ UNCHANGED <<database1_pass, database2_pass, differences, disk>>
    /\ UNCHANGED pureVars

\* The Sync button, clickable only when enabled.
SyncDatabases ==
    /\ button_enabled
    /\ \E ord1 \in OrdersAt(disk, database1_path, database1_pass),
          ord2 \in OrdersAt(disk, database2_path, database2_pass) :
          LET after == sync_databases(Self, disk, ord1, ord2)
          IN  /\ status_message' = after.status_message
              /\ differences' = after.differences
              /\ calls' = after.calls
              /\ database1_path' = after.database1_path
              /\ database1_pass' = after.database1_pass
              /\ database2_path' = after.database2_path
              /\ database2_pass' = after.database2_pass
    /\ UNCHANGED disk
    /\ UNCHANGED pureVars

Next ==
    \/ EditPath1 \/ EditPass1 \/ EditPath2 \/ EditPass2
    \/ BrowseFile
    \/ SyncDatabases

Spec == Init /\ [][Next]_vars

----------------------------------------------------------------------------
(* Vocabulary of the properties *)

\* An absent field shown as the empty string.
Shown(o) == IF Len(o) = 0 THEN "" ELSE o[1]

\* The entries of the tree in the order of a depth-first walk that visits a
\* group's direct entries before its child groups, children in their own order.
RECURSIVE Traversal(_, _)
Traversal(g, at) ==
    LET Below[j \in 0..Len(g.groups)] ==
            IF j = 0 THEN <<>>
            ELSE Below[j - 1] \o Traversal(g.groups[j], Append(at, j))
    IN  [i \in 1..Len(g.entries) |-> Ref(at, i)] \o Below[Len(g.groups)]

\* The positions of the walk whose entry has title t.
Titled(root, t) ==
    {i \in DOMAIN Traversal(root, <<>>) : Deref(root, Traversal(root, <<>>)[i]).title = t}
HasTitle(root, t) == Titled(root, t) # {}

\* The key a title stands for: the title, or the placeholder when absent.
KeyOf(t) == IF Len(t) = 0 THEN "(no title)" ELSE t[1]
Carrying(root, k) ==
    {i \in DOMAIN Traversal(root, <<>>) :
        KeyOf(Deref(root, Traversal(root, <<>>)[i]).title) = k}
LastOf(S) == CHOOSE i \in S : \A j \in S : j <= i

\* The positions of differences that report title k / carry tag.
About(k) == {i \in DOMAIN differences : differences[i].title = k}
Tagged(tag) == {i \in DOMAIN differences : differences[i].diff_type.tag = tag}

Indexed1(k) == Deref(db1.root, entries1[k])
Indexed2(k) == Deref(db2.root, entries2[k])
Matched == DOMAIN entries1 \cap DOMAIN entries2

Compared == runs >= 1

\* How often record d occurs in sequence s.
Occurrences(s, d) == Cardinality({i \in DOMAIN s : s[i] = d})

----------------------------------------------------------------------------
(* C1 *)

----------------------------------------------------------------------------
(* C2 *)

\* C2 as stated: a second comparison of the unchanged trees returns the same
\* sequence of differences, in the same order, whatever order the maps are
\* iterated in.
C2_SameSequence == runs >= 2 => differences = previous

\* C2 amended: a second comparison of the unchanged trees returns the same
\* Difference records, each as often as the first did (the same multiset, of
\* the same length): only the order of the records may differ between runs.
C2_SameRecords ==
    runs >= 2 =>
        /\ Len(differences) = Len(previous)
        /\ \A i \in DOMAIN differences :
               Occurrences(previous, differences[i]) = Occurrences(differences, differences[i])

\* Two runs reported the same two differences in different orders.
C2_Witness ==
    /\ runs >= 2
    /\ Len(differences) = 2
    /\ differences # previous

----------------------------------------------------------------------------
(* C3 *)

\* C3: collapse policy.  For every key carried by two or more entries of the
\* tree, at any depths, the index holds one entry for the key: the one the
\* entries-before-subgroups depth-first walk visits last.
C3_LastVisitedWins ==
    entries1 # EmptyMap =>
        \A k \in {KeyOf(t) : t \in Titles} :
            Cardinality(Carrying(db1.root, k)) >= 2 =>
                /\ k \in DOMAIN entries1
                /\ entries1[k] = Traversal(db1.root, <<>>)[LastOf(Carrying(db1.root, k))]

\* An index built from a tree where a key is carried by a direct entry of the
\* root and by an entry of a nested group.
C3_Witness ==
    /\ entries1 # EmptyMap
    /\ \E k \in DOMAIN entries1 :
          /\ Cardinality(Carrying(db1.root, k)) >= 2
          /\ Len(entries1[k].path) >= 1
          /\ \E i \in Carrying(db1.root, k) : Traversal(db1.root, <<>>)[i].path = <<>>

----------------------------------------------------------------------------
(* C4 *)

\* C4: priority law.  For every key in both indexes at most one Difference is
\* emitted, and when the two usernames (absent = empty) differ it is
\* UsernameDiffers{username1, username2}, never PasswordDiffers, whether or
\* not the passwords differ too.
C4_UsernameBeforePassword ==
    Compared =>
        \A k \in Matched :
            /\ Cardinality(About(k)) <= 1
            /\ Shown(Indexed1(k).username) # Shown(Indexed2(k).username) =>
                   /\ Cardinality(About(k)) = 1
                   /\ \A i \in About(k) :
                          differences[i].diff_type =
                              UsernameDiffers(Shown(Indexed1(k).username),
                                              Shown(Indexed2(k).username))

\* A matched key whose usernames differ and whose passwords differ too.
C4_Witness ==
    /\ Compared
    /\ \E k \in Matched :
          /\ Shown(Indexed1(k).username) # Shown(Indexed2(k).username)
          /\ Shown(Indexed1(k).password) # Shown(Indexed2(k).password)

----------------------------------------------------------------------------
(* C5 *)

\* C5: symmetry of absence.  For every key in exactly one index exactly one
\* Difference is emitted: OnlyInOne for a key of the first index, OnlyInTwo
\* for a key of the second, with the key as title and the username of the
\* entry that exists; no UsernameDiffers or PasswordDiffers mentions the key.
C5_OnlyInOneOrTwo ==
    Compared =>
        /\ \A k \in DOMAIN entries1 \ DOMAIN entries2 :
               /\ Cardinality(About(k)) = 1
               /\ \A i \in About(k) :
                      differences[i] =
                          DifferenceInfo(k, Shown(Indexed1(k).username), OnlyInOne)
        /\ \A k \in DOMAIN entries2 \ DOMAIN entries1 :
               /\ Cardinality(About(k)) = 1
               /\ \A i \in About(k) :
                      differences[i] =
                          DifferenceInfo(k, Shown(Indexed2(k).username), OnlyInTwo)

\* One key only in the first index, another only in the second.
C5_Witness ==
    /\ Compared
    /\ DOMAIN entries1 \ DOMAIN entries2 # {}
    /\ DOMAIN entries2 \ DOMAIN entries1 # {}

----------------------------------------------------------------------------
(* C6 *)

\* C6: equality law.  For every key in both indexes whose entries have equal
\* usernames and equal passwords, an absent field counting as the empty
\* string, no Difference is emitted; identical trees compare to the empty
\* sequence.
C6_EqualEntriesSilent ==
    Compared =>
        /\ \A k \in Matched :
               (/\ Shown(Indexed1(k).username) = Shown(Indexed2(k).username)
                /\ Shown(Indexed1(k).password) = Shown(Indexed2(k).password))
               => About(k) = {}
        /\ db1 = db2 => differences = <<>>

\* A matched key whose entries agree only because absent counts as empty.
C6_Witness ==
    /\ Compared
    /\ \E k \in Matched :
          /\ Indexed1(k).username # Indexed2(k).username
          /\ Indexed1(k).password # Indexed2(k).password
          /\ Shown(Indexed1(k).username) = Shown(Indexed2(k).username)
          /\ Shown(Indexed1(k).password) = Shown(Indexed2(k).password)

----------------------------------------------------------------------------
(* C7 *)

\* C7: count invariant.  count_entries returns the sum, over the root and
\* every descendant group, of the group's direct entries; entries sharing a
\* title are each counted.
C7_CountIsFullTreeSum ==
    count1 # None => count1 = Some(TotalEntries(db1.root))

\* A count taken of a tree with nested groups that exceeds the number of keys
\* of the index built from the same tree.
C7_Witness ==
    /\ count1 # None
    /\ entries1 # EmptyMap
    /\ count1[1] > Cardinality(DOMAIN entries1)
    /\ \E p \in GroupPaths(db1.root) : Len(p) = 2 /\ DirectEntries(db1.root, p) > 0

----------------------------------------------------------------------------
(* C9 *)

\* C9: output ordering.  Every OnlyInTwo record comes after every OnlyInOne,
\* UsernameDiffers and PasswordDiffers record.
C9_OnlyInTwoLast ==
    Compared =>
        \A i, j \in DOMAIN differences :
            (i < j /\ differences[i].diff_type = OnlyInTwo)
                => differences[j].diff_type = OnlyInTwo

\* A result holding an OnlyInTwo record and a record of another kind.
C9_Witness ==
    /\ Compared
    /\ Tagged("OnlyInTwo") # {}
    /\ Tagged("OnlyInTwo") # DOMAIN differences

----------------------------------------------------------------------------
(* C8, C10 *)

Made(c) == \E i \in DOMAIN calls : calls[i] = c
FailedRun == Made(Call("open_database", 1, FALSE)) \/ Made(Call("open_database", 2, FALSE))
ComparedRun == Made(Call("compare_databases", 0, TRUE))

\* C8: compare_databases is called only after both open_database calls
\* returned Ok.  A run whose first open fails makes no other call, the second
\* open included, and one whose second open fails makes no call after it; the
\* run ends with a status message naming the database that failed and the
\* cause open_database gave.
C8_CompareOnlyAfterBothOpen ==
    /\ \A i \in DOMAIN calls :
           calls[i].fn \in {"compare_databases", "collect_all_entries", "count_entries"} =>
               /\ \E j \in 1..(i - 1) : calls[j] = Call("open_database", 1, TRUE)
               /\ \E j \in 1..(i - 1) : calls[j] = Call("open_database", 2, TRUE)
    /\ Made(Call("open_database", 1, FALSE)) =>
           /\ calls = <<Call("open_database", 1, FALSE)>>
           /\ status_message =
                  <<"Error opening first database: ",
                    IF database1_path \in DOMAIN disk
                    THEN <<"Failed to decrypt database: ", "Incorrect key">>
                    ELSE <<"Failed to open file: ", "No such file or directory">> >>
    /\ Made(Call("open_database", 2, FALSE)) =>
           /\ calls = <<Call("open_database", 1, TRUE), Call("open_database", 2, FALSE)>>
           /\ status_message =
                  <<"Error opening second database: ",
                    IF database2_path \in DOMAIN disk
                    THEN <<"Failed to decrypt database: ", "Incorrect key">>
                    ELSE <<"Failed to open file: ", "No such file or directory">> >>

\* A run whose first open failed although the second database would open.
C8_Witness ==
    /\ Made(Call("open_database", 1, FALSE))
    /\ database2_path \in DOMAIN disk
    /\ database2_pass = disk[database2_path].password

\* C10: a run in which either open fails leaves the differences list as the
\* run before left it (of the application's fields only status_message
\* changes); the list changes only in a run in which both opens succeed and
\* compare_databases is called.
C10_FailedRunKeepsDifferences ==
    [][/\ FailedRun' =>
              /\ differences' = differences
              /\ UNCHANGED <<database1_path, database1_pass,
                             database2_path, database2_pass>>
       /\ differences' # differences => ComparedRun']_vars

\* A failed run with the differences of an earlier comparison still held.
C10_Witness ==
    /\ FailedRun
    /\ differences # <<>>

====
